---- MODULE Spec2Model ----
(***************************************************************************)
(* The two mock metadata servers of the repository:                        *)
(*   kubinit/testing-server/test_server.py   (single-file server)          *)
(*   testinit/testing-server/*.py            (server with scripted         *)
(*                                            responses)                   *)
(* Each server runs two listeners, the instance-metadata service (IMDS)    *)
(* and the control-plane service (WireServer).  A request is handled to    *)
(* completion by its handler; what the handler does on the connection is   *)
(* recorded as the ordered list of its sleeps and socket writes.  The      *)
(* process around the listeners (start-up, SIGINT, shutdown) is the        *)
(* specification SpecProcess.                                              *)
(***************************************************************************)
EXTENDS Integers, Sequences, FiniteSets, TLC

VARIABLES
    variant,                \* which server of the repository is running
    IMDS_GET_DELAY,         \* config.py:11
    WIRESERVER_GET_DELAY,   \* config.py:12
    IMDS_GET_TIMEOUT,       \* config.py:13
    WIRESERVER_GET_TIMEOUT, \* config.py:14
    phase,                  \* per service: the state of its listener thread
    responses,              \* per service: the class attribute _responses
    response_position,      \* per service: the class attribute _response_position
    played,                 \* per service: the scripted requests since its load
    handled,                \* number of requests handled so far
    last,                   \* the request handled last and what its handler did
    pc,                     \* where the main thread is
    imds_responses_file,    \* TestServer.imds_responses_file
    running,                \* TestServer.running
    inflight,               \* per service: the request being handled
    interface,              \* the dummy interface: "absent", "partial", "up"
    acquired,               \* calls of setup_network_interface so far
    released,               \* calls of cleanup_network_interface so far
    propagating,            \* the exception propagating in the main thread
    exit_status,            \* exit status of the process, None while it runs
    sigint                  \* SIGINT has been delivered

\* the state of the process around the two listeners
lifecycle == <<pc, imds_responses_file, running, inflight, interface, acquired,
               released, propagating, exit_status,
               sigint>>

vars == <<variant, IMDS_GET_DELAY, WIRESERVER_GET_DELAY, IMDS_GET_TIMEOUT,
          WIRESERVER_GET_TIMEOUT, phase, responses, response_position,
          played, handled, last, lifecycle>>

config == <<IMDS_GET_DELAY, WIRESERVER_GET_DELAY, IMDS_GET_TIMEOUT,
            WIRESERVER_GET_TIMEOUT>>

(***************************************************************************)
(* Bounds of the model.                                                    *)
(***************************************************************************)
MaxEntries == 2     \* longest scripted-response list that is loaded
MaxDelay == 1       \* largest configured fixed delay, in seconds
MaxBody == 2        \* longest POST body, in bytes

MaxRequests == MaxEntries + 1

Services == {"imds", "wireserver"}
Variants == {"kubinit", "testinit"}

None == "None"

(***************************************************************************)
(* Python dict access: d.get(k, default) and k in d.                       *)
(***************************************************************************)
Has(d, k) == k \in DOMAIN d

Get(d, k, default) == IF k \in DOMAIN d THEN d[k] ELSE default

(***************************************************************************)
(* What a handler does on the connection, in order.                        *)
(***************************************************************************)
Sleep(secs) == [ev |-> "sleep", secs |-> secs]

SendResponse(code) == [ev |-> "status", code |-> code]

SendHeader(name, value) == [ev |-> "header", name |-> name, value |-> value]

EndHeaders == [ev |-> "end_headers"]

Write(data) == [ev |-> "write", data |-> data]

\* json.dumps(value).encode(): the serialised text of a value
JsonDumps(value) == [json |-> value]

\* str.encode(): the bytes of a text
Encode(text) == [text |-> text]

\* the class attribute _responses: None, or the list that was loaded
NotLoaded == [is_none |-> TRUE]

Loaded(list) == [is_none |-> FALSE, list |-> list]

\* the outcome of a handler: what it did on the connection, the exception it
\* raised (or None), the value it leaves in _response_position, the index of
\* the scripted entry it selected (-1 when it selected none), and the bytes it
\* read from the request body
Outcome(wire, raised, position, selected) ==
    [wire |-> wire, raised |-> raised, position |-> position,
     selected |-> selected, post_data |-> <<>>]

\* BaseHTTPRequestHandler answers a method the handler class has no do_<METHOD>
\* for with 501 and an error page
UnsupportedMethod(method, position) ==
    Outcome(<<SendResponse(501),
              SendHeader("Content-Type", "text/html;charset=utf-8"),
              EndHeaders,
              Write(Encode([error |-> "Unsupported method", method |-> method]))>>,
            None, position, -1)

\* for header_name, header_value in headers.items(): self.send_header(...)
RECURSIVE SendHeaders(_)
SendHeaders(headers) ==
    IF headers = <<>> THEN <<>>
    ELSE <<SendHeader(Head(headers)[1], Head(headers)[2])>>
         \o SendHeaders(Tail(headers))

(***************************************************************************)
(* Built-in payloads.                                                      *)
(***************************************************************************)
MOCK_INSTANCE_METADATA ==
    [compute |-> [name |-> "test-vm", location |-> "eastus",
                  adminUsername |-> "azureuser",
                  vmId |-> "12345678-90ab-cdef-1234-567890abcdef"]]

MOCK_INSTANCE_METADATA_EXTENDED ==
    [compute |-> [name |-> "temp-vm", location |-> "eastus2",
                  adminUsername |-> "azureuser",
                  vmId |-> "12345678-90ab-cdef-1234-567890abcdef"],
     extended |-> [compute |-> [hasCustomData |-> FALSE, ppsType |-> "None"]]]

KUBINIT_MOCK_INSTANCE_METADATA ==
    [compute |-> [name |-> "test-vm", location |-> "eastus",
                  adminUsername |-> "userforazure",
                  vmId |-> "12345678-90ab-cdef-1234-567890abcdef"]]

mock_token ==
    [access_token |-> "eyJ0eXAiOiJKV1Qi.fake_signature",
     client_id |-> "12345678-90ab-cdef-1234-567890abcdef",
     expires_in |-> "3600", expires_on |-> "1624977600",
     token_type |-> "Bearer"]

MOCK_WIRESERVER_CONFIG ==
    [version |-> "2012-11-30", goalStateIncarnation |-> "1",
     machine |-> [expectedState |-> "Started", configurationStatus |-> "Ready"]]

xml_response ==
    [GoalState |-> [Version |-> "2012-11-30", Incarnation |-> "1",
                    InstanceId |-> "test-vm", State |-> "ReadyRole"]]

ResponseOK == "<?xml version=\"1.0\" encoding=\"utf-8\"?><Response>OK</Response>"

(***************************************************************************)
(* Query strings.  A query is the list of its key=value pairs; parse_qs    *)
(* groups the values of each key in order and drops blank values.          *)
(***************************************************************************)
ValuesOf(query, key) ==
    LET sel == SelectSeq(query, LAMBDA p : p[1] = key /\ p[2] # "")
    IN  [i \in 1..Len(sel) |-> sel[i][2]]

parse_qs(query) ==
    [key \in {query[i][1] : i \in {j \in 1..Len(query) : query[j][2] # ""}}
        |-> ValuesOf(query, key)]

\* str.lower() on the values a query carries
Lower(s) ==
    CASE s = "TRUE" -> "true"
      [] s = "True" -> "true"
      [] s = "FALSE" -> "false"
      [] OTHER -> s

(***************************************************************************)
(* testinit/testing-server/imds_handler.py                                 *)
(***************************************************************************)
EmptyDict == <<>>

\* write_custom_response that wraps the cursor one request too late
IMDSHandler_write_custom_response_LateWrap(responses_list, position) ==
    LET pos == IF position > Len(responses_list) THEN 0 ELSE position
    IN  IF pos + 1 > Len(responses_list)
        THEN Outcome(<<>>, "IndexError", pos, -1)
        ELSE
          LET current_response == responses_list[pos + 1]
              slept == IF Has(current_response, "delay")
                       THEN <<Sleep(current_response["delay"])>>
                       ELSE <<>>
          IN  IF ~Has(current_response, "status_code")
              THEN Outcome(slept, "KeyError", pos, pos)
              ELSE Outcome(
                     slept
                     \o <<SendResponse(current_response["status_code"])>>
                     \o SendHeaders(Get(current_response, "headers", <<>>))
                     \o <<EndHeaders,
                          Write(Encode(JsonDumps(
                              Get(current_response, "response", EmptyDict))))>>,
                     None, pos + 1, pos)

\* write_custom_response that forgets the descriptor's headers
IMDSHandler_write_custom_response_NoHeaders(responses_list, position) ==
    LET pos == IF position >= Len(responses_list) THEN 0 ELSE position
    IN  IF pos + 1 > Len(responses_list)
        THEN Outcome(<<>>, "IndexError", pos, -1)
        ELSE
          LET current_response == responses_list[pos + 1]
              slept == IF Has(current_response, "delay")
                       THEN <<Sleep(current_response["delay"])>>
                       ELSE <<>>
          IN  IF ~Has(current_response, "status_code")
              THEN Outcome(slept, "KeyError", pos, pos)
              ELSE Outcome(
                     slept
                     \o <<SendResponse(current_response["status_code"]),
                          EndHeaders,
                          Write(Encode(JsonDumps(
                              Get(current_response, "response", EmptyDict))))>>,
                     None, pos + 1, pos)

IMDSHandler_write_custom_response(responses_list, position) ==
    LET pos == IF position >= Len(responses_list) THEN 0 ELSE position
    IN  IF pos + 1 > Len(responses_list)
        THEN Outcome(<<>>, "IndexError", pos, -1)
        ELSE
          LET current_response == responses_list[pos + 1]
              slept == IF Has(current_response, "delay")
                       THEN <<Sleep(current_response["delay"])>>
                       ELSE <<>>
          IN  IF ~Has(current_response, "status_code")
              THEN Outcome(slept, "KeyError", pos, pos)
              ELSE Outcome(
                     slept
                     \o <<SendResponse(current_response["status_code"])>>
                     \o SendHeaders(Get(current_response, "headers", <<>>))
                     \o <<EndHeaders,
                          Write(Encode(JsonDumps(
                              Get(current_response, "response", EmptyDict))))>>,
                     None, pos + 1, pos)

\* write_default_response that never looks at the query
IMDSHandler_write_default_response_NoExtended(query, position) ==
    Outcome(<<SendResponse(200),
              SendHeader("Content-Type", "application/json"),
              EndHeaders,
              Write(Encode(JsonDumps(MOCK_INSTANCE_METADATA)))>>,
            None, position, -1)

IMDSHandler_write_default_response(query, position) ==
    LET query_params == parse_qs(query)
        extended == Lower(Get(query_params, "extended", <<"false">>)[1]) = "true"
    IN  Outcome(<<SendResponse(200),
                  SendHeader("Content-Type", "application/json"),
                  EndHeaders,
                  Write(Encode(JsonDumps(
                      IF extended THEN MOCK_INSTANCE_METADATA_EXTENDED
                                  ELSE MOCK_INSTANCE_METADATA)))>>,
                None, position, -1)

\* a 400 answer that consumes a scripted response
BadRequest_Advance(position) ==
    Outcome(<<SendResponse(400),
              SendHeader("Content-Type", "application/json"),
              EndHeaders,
              Write(Encode(JsonDumps(
                  [error |-> "Bad Request",
                   message |-> "Metadata header not found"])))>>,
            None, position + 1, -1)

BadRequest(position) ==
    Outcome(<<SendResponse(400),
              SendHeader("Content-Type", "application/json"),
              EndHeaders,
              Write(Encode(JsonDumps(
                  [error |-> "Bad Request",
                   message |-> "Metadata header not found"])))>>,
            None, position, -1)

NotFound(path, position) ==
    Outcome(<<SendResponse(404),
              SendHeader("Content-Type", "application/json"),
              EndHeaders,
              Write(Encode(JsonDumps(
                  [error |-> "Not Found",
                   message |-> <<"Endpoint ", path, " not found">>])))>>,
            None, position, -1)

\* do_GET with the header checked only for the canonical metadata path
IMDSHandler_do_GET_PathFirst(req, loaded, position) ==
    IF req.path # "/metadata/instance"
    THEN NotFound(req.path, position)
    ELSE IF Get(req.headers, "Metadata", None) # "true"
         THEN BadRequest(position)
         ELSE IF ~loaded.is_none
              THEN IMDSHandler_write_custom_response(loaded.list, position)
              ELSE IMDSHandler_write_default_response(req.query, position)

IMDSHandler_do_GET(req, loaded, position) ==
    IF Get(req.headers, "Metadata", None) # "true"
    THEN BadRequest(position)
    ELSE IF req.path = "/metadata/instance"
         THEN IF ~loaded.is_none
              THEN IMDSHandler_write_custom_response(loaded.list, position)
              ELSE IMDSHandler_write_default_response(req.query, position)
         ELSE NotFound(req.path, position)

(***************************************************************************)
(* kubinit/testing-server/test_server.py, class IMDSHandler                *)
(***************************************************************************)
Kubinit_IMDSHandler_do_GET(req, position) ==
    IF Get(req.headers, "Metadata", None) # "true"
    THEN BadRequest(position)
    ELSE IF req.path = "/metadata/instance"
         THEN Outcome(<<SendResponse(200),
                        SendHeader("Content-Type", "application/json"),
                        EndHeaders,
                        Write(Encode(JsonDumps(KUBINIT_MOCK_INSTANCE_METADATA)))>>,
                      None, position, -1)
         ELSE IF req.path = "/metadata/identity/oauth2/token"
              THEN Outcome(<<SendResponse(200),
                             SendHeader("Content-Type", "application/json"),
                             EndHeaders,
                             Write(Encode(JsonDumps(mock_token)))>>,
                           None, position, -1)
              ELSE NotFound(req.path, position)

(***************************************************************************)
(* testinit/testing-server/wireserver_handler.py                           *)
(***************************************************************************)
\* int(text) on the decimal texts the model's files and headers carry
ParseInt(text) ==
    CASE text = "0" -> 0
      [] text = "1" -> 1
      [] text = "2" -> 2
      [] text = "3" -> 3
      [] text = "200" -> 200

\* the <header name= value=/> children of <headers>, kept when both
\* attributes are non-empty
RECURSIVE LoadHeaders(_)
LoadHeaders(header_elems) ==
    IF header_elems = <<>> THEN <<>>
    ELSE LET header == Head(header_elems)
             name == Get(header, "name", "")
             value == Get(header, "value", "")
         IN  (IF name # "" /\ value # "" THEN <<<<name, value>>>> ELSE <<>>)
             \o LoadHeaders(Tail(header_elems))

\* one <response> element to its response_dict
LoadResponseElem(response_elem) ==
    (IF Has(response_elem, "status_code")
       THEN "status_code" :> ParseInt(response_elem["status_code"]) ELSE <<>>)
    @@ (IF Has(response_elem, "headers")
       THEN "headers" :> LoadHeaders(response_elem["headers"]) ELSE <<>>)
    @@ (IF Has(response_elem, "response_body")
       THEN "response" :> response_elem["response_body"] ELSE <<>>)
    @@ (IF Has(response_elem, "delay")
       THEN "delay" :> ParseInt(response_elem["delay"]) ELSE <<>>)

WireServerHandler_load_responses(root) ==
    [i \in 1..Len(root) |-> LoadResponseElem(root[i])]

\* write_custom_response without the wrap of the cursor
WireServerHandler_write_custom_response_NoWrap(responses_list, position) ==
    LET pos == position
    IN  IF pos + 1 > Len(responses_list)
        THEN Outcome(<<>>, "IndexError", pos, -1)
        ELSE
          LET current_response == responses_list[pos + 1]
          IN  IF ~Has(current_response, "status_code")
              THEN Outcome(<<>>, "KeyError", pos, pos)
              ELSE Outcome(
                     <<SendResponse(current_response["status_code"])>>
                     \o SendHeaders(Get(current_response, "headers", <<>>))
                     \o <<EndHeaders, Write(Encode(""))>>,
                     None, pos + 1, pos)

WireServerHandler_write_custom_response(responses_list, position) ==
    LET pos == IF position >= Len(responses_list) THEN 0 ELSE position
    IN  IF pos + 1 > Len(responses_list)
        THEN Outcome(<<>>, "IndexError", pos, -1)
        ELSE
          LET current_response == responses_list[pos + 1]
          IN  IF ~Has(current_response, "status_code")
              THEN Outcome(<<>>, "KeyError", pos, pos)
              ELSE Outcome(
                     <<SendResponse(current_response["status_code"])>>
                     \o SendHeaders(Get(current_response, "headers", <<>>))
                     \o <<EndHeaders, Write(Encode(""))>>,
                     None, pos + 1, pos)

\* write_default_response that answers with the wrong content type
WireServerHandler_write_default_response_Json(position) ==
    Outcome(<<SendResponse(200),
              SendHeader("Content-Type", "application/json"),
              EndHeaders,
              Write(Encode(ResponseOK))>>,
            None, position, -1)

WireServerHandler_write_default_response(position) ==
    Outcome(<<SendResponse(200),
              SendHeader("Content-Type", "application/xml"),
              EndHeaders,
              Write(Encode(ResponseOK))>>,
            None, position, -1)

\* rfile.read(content_length): the first content_length bytes of the body
Read(body, content_length) ==
    SubSeq(body, 1, IF content_length < Len(body) THEN content_length
                                                  ELSE Len(body))

WireServerHandler_do_POST(req, loaded, position) ==
    LET content_length ==
            IF Has(req.headers, "Content-Length")
            THEN ParseInt(req.headers["Content-Length"]) ELSE 0
        post_data == Read(req.body, content_length)
        out == IF ~loaded.is_none
               THEN WireServerHandler_write_custom_response(loaded.list, position)
               ELSE WireServerHandler_write_default_response(position)
    IN  [out EXCEPT !.post_data = post_data]

(***************************************************************************)
(* kubinit/testing-server/test_server.py, class WireServerHandler          *)
(***************************************************************************)
StartsWith(text, prefix) ==
    Len(text) >= Len(prefix) /\ SubSeq(text, 1, Len(prefix)) = prefix

\* the text "/machine", character by character
MachinePrefix == <<"/", "m", "a", "c", "h", "i", "n", "e">>

Kubinit_WireServerHandler_do_GET(req, position) ==
    IF StartsWith(req.path, MachinePrefix)
    THEN Outcome(<<SendResponse(200),
                   SendHeader("Content-Type", "application/xml"),
                   EndHeaders,
                   Write(Encode(xml_response))>>,
                 None, position, -1)
    ELSE Outcome(<<SendResponse(200),
                   SendHeader("Content-Type", "application/json"),
                   EndHeaders,
                   Write(Encode(JsonDumps(MOCK_WIRESERVER_CONFIG)))>>,
                 None, position, -1)

Kubinit_WireServerHandler_do_POST(req, position) ==
    LET content_length ==
            IF Has(req.headers, "Content-Length")
            THEN ParseInt(req.headers["Content-Length"]) ELSE 0
        post_data == Read(req.body, content_length)
    IN  [Outcome(<<SendResponse(200),
                   SendHeader("Content-Type", "application/xml"),
                   EndHeaders,
                   Write(Encode(ResponseOK))>>,
                 None, position, -1) EXCEPT !.post_data = post_data]

(***************************************************************************)
(* BaseHTTPRequestHandler calls do_<METHOD> of the handler class when the  *)
(* class defines it.                                                       *)
(***************************************************************************)
IMDSHandler(v, req, loaded, position) ==
    IF v = "testinit"
    THEN IF req.method = "GET"
         THEN IMDSHandler_do_GET(req, loaded, position)
         ELSE UnsupportedMethod(req.method, position)
    ELSE IF req.method = "GET"
         THEN Kubinit_IMDSHandler_do_GET(req, position)
         ELSE UnsupportedMethod(req.method, position)

WireServerHandler(v, req, loaded, position) ==
    IF v = "testinit"
    THEN IF req.method = "POST"
         THEN WireServerHandler_do_POST(req, loaded, position)
         ELSE UnsupportedMethod(req.method, position)
    ELSE IF req.method = "GET"
         THEN Kubinit_WireServerHandler_do_GET(req, position)
         ELSE IF req.method = "POST"
              THEN Kubinit_WireServerHandler_do_POST(req, position)
              ELSE UnsupportedMethod(req.method, position)

(***************************************************************************)
(* Inputs: the response files and the requests.                            *)
(***************************************************************************)
SeqsUpTo(S, n) == UNION {[1..k -> S] : k \in 0..n}

\* entries of a JSON responses file
JsonEntries ==
    { [status_code |-> 200,
       headers |-> << <<"Content-Type", "application/json">> >>,
       response |-> [compute |-> [name |-> "scripted-vm"]],
       delay |-> 1],
      [status_code |-> 503],
      [response |-> [compute |-> [name |-> "no-status"]], delay |-> 1] }

JsonFiles == {[responses |-> list] : list \in SeqsUpTo(JsonEntries, MaxEntries)}

\* <response> elements of an XML responses file
XmlElems ==
    { [status_code |-> "200",
       headers |-> << [name |-> "Content-Type", value |-> "text/xml"],
                      [name |-> "X-No-Value"] >>,
       response_body |-> "<GoalState/>",
       delay |-> "1"],
      [response_body |-> "no-status"] }

XmlFiles == SeqsUpTo(XmlElems, MaxEntries)

MetadataHeaders == {<<>>, "Metadata" :> "true", "Metadata" :> "True"}

IMDSPaths == {"/metadata/instance", "/metadata/identity/oauth2/token",
              "/metadata/unknown"}

Queries == { <<>>,
             << <<"extended", "true">> >>,
             << <<"extended", "TRUE">> >>,
             << <<"extended", "false">>, <<"extended", "true">> >>,
             << <<"api-version", "2021-02-01">>, <<"extended", "">> >> }

IMDSRequests ==
    {[method |-> "GET", path |-> p, query |-> <<>>, headers |-> h,
      body |-> <<>>] : p \in IMDSPaths, h \in MetadataHeaders}
    \cup {[method |-> "GET", path |-> "/metadata/instance", query |-> q,
           headers |-> ("Metadata" :> "true"), body |-> <<>>] : q \in Queries}
    \cup {[method |-> "POST", path |-> "/metadata/instance", query |-> <<>>,
           headers |-> h, body |-> <<>>] : h \in MetadataHeaders}

\* "/machine", "/machinery", "/" and "/m"
WSTargets == {MachinePrefix, MachinePrefix \o <<"r", "y">>, <<"/">>,
              <<"/", "m">>}

\* the decimal text of a length
ToText(n) ==
    CASE n = 0 -> "0" [] n = 1 -> "1" [] n = 2 -> "2" [] n = 3 -> "3"

\* a request body of n bytes
Body(n) == [i \in 1..n |-> ToText(i)]

WSRequests ==
    {[method |-> "GET", path |-> t, query |-> <<>>, headers |-> <<>>,
      body |-> <<>>] : t \in WSTargets}
    \cup {[method |-> "POST", path |-> t, query |-> <<>>,
           headers |-> ("Content-Length" :> ToText(n)), body |-> Body(n)]
          : t \in {MachinePrefix, <<"/">>}, n \in 0..MaxBody}
    \cup {[method |-> "POST", path |-> MachinePrefix, query |-> <<>>,
           headers |-> <<>>, body |-> Body(n)] : n \in 0..MaxBody}

NoRequest == [service |-> None]

\* no --imds-responses argument
NoFile == [kind |-> None]

(***************************************************************************)
(* The state machine.                                                      *)
(***************************************************************************)
\* the main thread in the keep-alive loop of TestServer.start: the interface
\* is set up, both listener threads are started and no request is being
\* handled
KeepAlive ==
    /\ pc = "loop"
    /\ imds_responses_file = NoFile
    /\ running = TRUE
    /\ inflight = [s \in Services |-> NoRequest]
    /\ interface = "up"
    /\ acquired = 1
    /\ released = 0
    /\ propagating = None
    /\ exit_status = None
    /\ sigint = FALSE

\* the process state when the listener threads have been started and neither
\* has run yet
Startup ==
    /\ KeepAlive
    /\ variant \in Variants
    /\ phase = [s \in Services |-> "starting"]
    /\ responses = [s \in Services |-> NotLoaded]
    /\ response_position = [s \in Services |-> 0]
    /\ played = [s \in Services |-> <<>>]
    /\ handled = 0
    /\ last = NoRequest

\* config.py with none of the four environment variables set
Init ==
    /\ Startup
    /\ IMDS_GET_DELAY = 0
    /\ WIRESERVER_GET_DELAY = 0
    /\ IMDS_GET_TIMEOUT = FALSE
    /\ WIRESERVER_GET_TIMEOUT = FALSE

\* config.py with the environment variables of the testinit server set
InitEnv ==
    /\ Startup
    /\ variant = "testinit"
    /\ IMDS_GET_DELAY \in 0..MaxDelay
    /\ WIRESERVER_GET_DELAY \in 0..MaxDelay
    /\ IMDS_GET_TIMEOUT \in BOOLEAN
    /\ WIRESERVER_GET_TIMEOUT \in BOOLEAN

IMDSHandler_load_responses(file) == file["responses"]

\* TestServer.start_imds_server without --imds-responses
StartImdsServer ==
    /\ phase["imds"] = "starting"
    /\ phase' = [phase EXCEPT !["imds"] = "serving"]
    /\ UNCHANGED <<variant, config, responses, response_position, played,
                   handled, last, lifecycle>>

\* TestServer.start_imds_server with --imds-responses
StartImdsServerWithResponses ==
    /\ variant = "testinit"
    /\ phase["imds"] = "starting"
    /\ \E file \in JsonFiles :
          responses' = [responses EXCEPT
                           !["imds"] = Loaded(IMDSHandler_load_responses(file))]
    /\ phase' = [phase EXCEPT !["imds"] = "serving"]
    /\ UNCHANGED <<variant, config, response_position, played, handled, last,
                   lifecycle>>

\* WireServerHandler.set_response_file_path and load_responses, called
\* before the listener starts
WireServerLoadResponses ==
    /\ variant = "testinit"
    /\ phase["wireserver"] = "starting"
    /\ responses["wireserver"].is_none
    /\ \E root \in XmlFiles :
          responses' = [responses EXCEPT
                           !["wireserver"] =
                               Loaded(WireServerHandler_load_responses(root))]
    /\ UNCHANGED <<variant, config, phase, response_position, played, handled,
                   last, lifecycle>>

StartWireserverServer ==
    /\ phase["wireserver"] = "starting"
    /\ phase' = [phase EXCEPT !["wireserver"] = "serving"]
    /\ UNCHANGED <<variant, config, responses, response_position, played,
                   handled, last, lifecycle>>

\* a request was routed to scripted playback
IsPlayback(out) == out.selected >= 0 \/ out.raised = "IndexError"

Handle(service, req, out) ==
    /\ response_position' = [response_position EXCEPT ![service] = out.position]
    /\ played' = [played EXCEPT ![service] =
                     IF IsPlayback(out)
                     THEN Append(@, [selected |-> out.selected,
                                     answered |-> out.raised = None])
                     ELSE @]
    /\ handled' = handled + 1
    /\ last' = [service |-> service, req |-> req, out |-> out]
    /\ UNCHANGED <<variant, config, phase, responses>>

IMDSRequest ==
    /\ phase["imds"] = "serving"
    /\ handled < MaxRequests
    /\ \E req \in IMDSRequests :
          Handle("imds", req,
                 IMDSHandler(variant, req, responses["imds"],
                             response_position["imds"]))
    /\ UNCHANGED lifecycle

WireServerRequest ==
    /\ phase["wireserver"] = "serving"
    /\ handled < MaxRequests
    /\ \E req \in WSRequests :
          Handle("wireserver", req,
                 WireServerHandler(variant, req, responses["wireserver"],
                                   response_position["wireserver"]))
    /\ UNCHANGED lifecycle

Next ==
    \/ StartImdsServer
    \/ StartImdsServerWithResponses
    \/ WireServerLoadResponses
    \/ StartWireserverServer
    \/ IMDSRequest
    \/ WireServerRequest

Spec == Init /\ [][Next]_vars

SpecEnv == InitEnv /\ [][Next]_vars

(***************************************************************************)
(* The handler classes with load_responses called again while the          *)
(* listener serves.  The servers call it once, before serve_forever; it is *)
(* a classmethod that re-reads the file whose path was set.  played keeps  *)
(* the scripted requests since the last load.                              *)
(***************************************************************************)
\* IMDSHandler.load_responses assigns _responses and nothing else
IMDSHandlerLoadResponses ==
    /\ variant = "testinit"
    /\ phase["imds"] = "serving"
    /\ ~responses["imds"].is_none
    /\ handled < MaxRequests
    /\ \E file \in JsonFiles :
          responses' = [responses EXCEPT
                           !["imds"] = Loaded(IMDSHandler_load_responses(file))]
    /\ played' = [played EXCEPT !["imds"] = <<>>]
    /\ UNCHANGED <<variant, config, phase, response_position, handled, last,
                   lifecycle>>

\* WireServerHandler.load_responses assigns _responses and nothing else
WireServerHandlerLoadResponses ==
    /\ variant = "testinit"
    /\ phase["wireserver"] = "serving"
    /\ ~responses["wireserver"].is_none
    /\ handled < MaxRequests
    /\ \E root \in XmlFiles :
          responses' = [responses EXCEPT
                           !["wireserver"] =
                               Loaded(WireServerHandler_load_responses(root))]
    /\ played' = [played EXCEPT !["wireserver"] = <<>>]
    /\ UNCHANGED <<variant, config, phase, response_position, handled, last,
                   lifecycle>>

NextReload ==
    \/ Next
    \/ IMDSHandlerLoadResponses
    \/ WireServerHandlerLoadResponses

SpecReload == Init /\ [][NextReload]_vars

(***************************************************************************)
(* The process around the listeners: the __main__ block, TestServer.start  *)
(* and TestServer.stop on the main thread, and the two listener threads.   *)
(* A listener thread is "None" before it is started, "starting" until it   *)
(* reaches serve_forever, then "serving"; it is "dead" when an exception   *)
(* ended it and "shut_down" when serve_forever has returned.  The server   *)
(* attribute of a listener is assigned immediately before serve_forever.   *)
(***************************************************************************)
\* what --imds-responses can name: a path with no file, a file that is not
\* JSON, a JSON object without "responses" and the JSON response files
ResponsesFiles ==
    {[kind |-> "missing"], [kind |-> "invalid"],
     [kind |-> "json", value |-> [compute |-> <<>>]]}
    \cup {[kind |-> "json", value |-> file] : file \in JsonFiles}

\* the requests sent to a running process
ProcessIMDSRequests ==
    {req \in IMDSRequests :
        /\ req.method = "GET"
        /\ req.query = <<>>
        /\ \/ /\ req.path = "/metadata/instance"
              /\ req.headers # ("Metadata" :> "True")
           \/ /\ req.path = "/metadata/unknown"
              /\ req.headers = ("Metadata" :> "true")}

ProcessWSRequests ==
    {req \in WSRequests :
        /\ req.path = MachinePrefix
        /\ \/ req.method = "GET"
           \/ req.body = Body(1) /\ Has(req.headers, "Content-Length")}

ProcessRequests(service) ==
    IF service = "imds" THEN ProcessIMDSRequests ELSE ProcessWSRequests

\* validate_json_file: TRUE when it returns, FALSE when it calls sys.exit(1)
validate_json_file(file) == file.kind = "json"

\* TestServer.imds_server and TestServer.wireserver_server
server(service) ==
    IF phase[service] \in {"serving", "shut_down"} THEN "HTTPServer" ELSE None

InitProcess ==
    /\ variant \in Variants
    /\ IMDS_GET_DELAY = 0
    /\ WIRESERVER_GET_DELAY = 0
    /\ IMDS_GET_TIMEOUT = FALSE
    /\ WIRESERVER_GET_TIMEOUT = FALSE
    /\ phase = [s \in Services |-> None]
    /\ responses = [s \in Services |-> NotLoaded]
    /\ response_position = [s \in Services |-> 0]
    /\ played = [s \in Services |-> <<>>]
    /\ handled = 0
    /\ last = NoRequest
    /\ pc = "main"
    /\ imds_responses_file \in
           IF variant = "testinit" THEN {NoFile} \cup ResponsesFiles
           ELSE {NoFile}
    /\ running = FALSE
    /\ inflight = [s \in Services |-> NoRequest]
    /\ interface = "absent"
    /\ acquired = 0
    /\ released = 0
    /\ propagating = None
    /\ exit_status = None
    /\ sigint = FALSE

handlers == <<responses, response_position, played, handled, last>>

\* the __main__ block up to signal.signal
Main ==
    /\ pc = "main"
    /\ IF imds_responses_file # NoFile
          /\ ~validate_json_file(imds_responses_file)
       THEN /\ pc' = "exit"
            /\ propagating' = "SystemExit"
            /\ exit_status' = 1
       ELSE /\ pc' = "construct"
            /\ UNCHANGED <<propagating, exit_status>>
    /\ UNCHANGED <<variant, config, phase, handlers, imds_responses_file,
                   running, inflight, interface, acquired, released, sigint>>

\* TestServer.__init__ with the responses file as its argument
Main_TestServer ==
    /\ pc = "construct"
    /\ pc' = "start"
    /\ UNCHANGED <<variant, config, phase, handlers, imds_responses_file,
                   running, inflight, interface, acquired, released,
                   propagating, exit_status, sigint>>

\* the call TestServer(args.imds_responses, args.wireserver_responses) of
\* the testinit __main__ block: __init__ takes one argument
Main_TestServer_TypeError ==
    /\ variant = "testinit"
    /\ pc = "construct"
    /\ pc' = "exit"
    /\ propagating' = "TypeError"
    /\ exit_status' = 1
    /\ UNCHANGED <<variant, config, phase, handlers, imds_responses_file,
                   running, inflight, interface, acquired, released, sigint>>

\* TestServer.start: setup_network_interface; a failing command leaves the
\* commands before it applied
TestServer_setup_network_interface ==
    /\ pc = "start"
    /\ acquired' = acquired + 1
    /\ \/ /\ interface' = "up"
          /\ pc' = "threads"
          /\ UNCHANGED propagating
       \/ /\ interface' \in {"absent", "partial"}
          /\ pc' = "except"
          /\ propagating' = "CalledProcessError"
    /\ UNCHANGED <<variant, config, phase, handlers, imds_responses_file,
                   running, inflight, released, exit_status, sigint>>

\* TestServer.start: both threads are created and started, running is set
TestServer_start_threads ==
    /\ pc = "threads"
    /\ phase' = [s \in Services |-> "starting"]
    /\ running' = TRUE
    /\ pc' = "loop"
    /\ UNCHANGED <<variant, config, handlers, imds_responses_file, inflight,
                   interface, acquired, released, propagating, exit_status,
                   sigint>>

\* TestServer.start: except Exception: cleanup_network_interface(); raise,
\* which takes the main thread to the finally clause of the __main__ block
TestServer_start_except ==
    /\ pc = "except"
    /\ released' = released + 1
    /\ interface' = "absent"
    /\ pc' = "finally"
    /\ UNCHANGED <<variant, config, phase, handlers, imds_responses_file,
                   running, inflight, acquired, propagating, exit_status,
                   sigint>>

\* signal_handler: sys.exit(0) raises SystemExit in the main thread; no
\* except clause of start or of the __main__ block catches it, so the finally
\* clause runs unless the main thread is already in it
signal_handler ==
    /\ ~sigint
    /\ pc \in {"construct", "start", "threads", "loop", "except", "finally",
               "stop_wireserver", "cleanup"}
    /\ sigint' = TRUE
    /\ propagating' = "SystemExit"
    /\ pc' = CASE pc = "construct" -> "exit"
               [] pc \in {"start", "threads", "loop", "except"} -> "finally"
               [] OTHER -> "exit"
    /\ exit_status' = IF pc' = "exit" THEN 0 ELSE None
    \* interrupted while setup_network_interface or cleanup_network_interface
    \* is running: some of its commands are applied
    /\ \/ UNCHANGED <<interface, acquired, released>>
       \/ /\ pc = "start"
          /\ interface' = "partial"
          /\ acquired' = acquired + 1
          /\ UNCHANGED released
       \/ /\ pc \in {"except", "cleanup"}
          /\ interface # "absent"
          /\ interface' = "partial"
          /\ released' = released + 1
          /\ UNCHANGED acquired
    /\ UNCHANGED <<variant, config, phase, handlers, imds_responses_file,
                   running, inflight>>

\* the exit status an exception gives the process
ExitStatusOf(exception) == IF exception = "SystemExit" THEN 0 ELSE 1

\* TestServer.stop up to the end of self.imds_server.shutdown(), which
\* returns when serve_forever has returned
TestServer_stop ==
    /\ pc = "finally"
    /\ running' = FALSE
    /\ IF server("imds") = None
       THEN IF variant = "kubinit"
            THEN /\ pc' = "stop_wireserver"
                 /\ UNCHANGED <<phase, propagating, exit_status>>
            ELSE /\ pc' = "exit"
                 /\ propagating' = "AttributeError"
                 /\ exit_status' = 1
                 /\ UNCHANGED phase
       ELSE /\ inflight["imds"] = NoRequest
            /\ phase' = [phase EXCEPT !["imds"] = "shut_down"]
            /\ pc' = "stop_wireserver"
            /\ UNCHANGED <<propagating, exit_status>>
    /\ UNCHANGED <<variant, config, handlers, imds_responses_file, inflight,
                   interface, acquired, released, sigint>>

\* TestServer.stop: self.wireserver_server.shutdown()
TestServer_stop_wireserver ==
    /\ pc = "stop_wireserver"
    /\ IF server("wireserver") = None
       THEN IF variant = "kubinit"
            THEN /\ pc' = "cleanup"
                 /\ UNCHANGED <<phase, propagating, exit_status>>
            ELSE /\ pc' = "exit"
                 /\ propagating' = "AttributeError"
                 /\ exit_status' = 1
                 /\ UNCHANGED phase
       ELSE /\ inflight["wireserver"] = NoRequest
            /\ phase' = [phase EXCEPT !["wireserver"] = "shut_down"]
            /\ pc' = "cleanup"
            /\ UNCHANGED <<propagating, exit_status>>
    /\ UNCHANGED <<variant, config, handlers, imds_responses_file, running,
                   inflight, interface, acquired, released, sigint>>

\* TestServer.stop: cleanup_network_interface(), after which the __main__
\* block ends with the exception that reached its finally clause
TestServer_stop_cleanup ==
    /\ pc = "cleanup"
    /\ released' = released + 1
    /\ interface' = "absent"
    /\ pc' = "exit"
    /\ exit_status' = ExitStatusOf(propagating)
    /\ UNCHANGED <<variant, config, phase, handlers, imds_responses_file,
                   running, inflight, acquired, propagating, sigint>>

\* HTTPServer((ip, port), handler) binds an address of the dummy interface
Bind == interface = "up"

\* the thread of TestServer.start_imds_server, up to serve_forever
TestServer_start_imds_server ==
    /\ phase["imds"] = "starting"
    /\ pc # "exit"
    /\ LET load == variant = "testinit" /\ imds_responses_file # NoFile
           loadable == Has(imds_responses_file.value, "responses")
       IN  IF load /\ ~loadable
           THEN \* KeyError in load_responses
                /\ phase' = [phase EXCEPT !["imds"] = "dead"]
                /\ UNCHANGED responses
           ELSE /\ responses' =
                       IF load
                       THEN [responses EXCEPT !["imds"] =
                                Loaded(IMDSHandler_load_responses(
                                           imds_responses_file.value))]
                       ELSE responses
                /\ phase' = [phase EXCEPT !["imds"] =
                                IF Bind THEN "serving" ELSE "dead"]
    /\ UNCHANGED <<variant, config, response_position, played, handled, last,
                   lifecycle>>

\* the thread of TestServer.start_wireserver_server, up to serve_forever
TestServer_start_wireserver_server ==
    /\ phase["wireserver"] = "starting"
    /\ pc # "exit"
    /\ phase' = [phase EXCEPT !["wireserver"] =
                    IF Bind THEN "serving" ELSE "dead"]
    /\ UNCHANGED <<variant, config, handlers, lifecycle>>

InFlight == {s \in Services : inflight[s] # NoRequest}

\* one accept loop for both listeners: no request is accepted while the other
\* listener is handling one
Accept_SharedLoop(service) ==
    /\ phase[service] = "serving"
    /\ pc # "exit"
    /\ InFlight = {}
    /\ handled < MaxRequests
    /\ \E req \in ProcessRequests(service) :
          inflight' = [inflight EXCEPT ![service] = req]
    /\ UNCHANGED <<variant, config, phase, handlers, pc, imds_responses_file,
                   running, interface, acquired, released, propagating,
                   exit_status, sigint>>

\* a listener that starts a handler for every connection at once
\* (ThreadingHTTPServer): a request is accepted while another is being handled
Accept_Threading(service) ==
    /\ phase[service] = "serving"
    /\ pc # "exit"
    /\ handled + Cardinality(InFlight) < MaxRequests
    /\ \E req \in ProcessRequests(service) :
          inflight' = [inflight EXCEPT ![service] = req]
    /\ UNCHANGED <<variant, config, phase, handlers, pc, imds_responses_file,
                   running, interface, acquired, released, propagating,
                   exit_status, sigint>>

\* serve_forever of a listener accepts a request and calls its handler
Accept(service) ==
    /\ phase[service] = "serving"
    /\ pc # "exit"
    /\ inflight[service] = NoRequest
    /\ handled + Cardinality(InFlight) < MaxRequests
    /\ \E req \in ProcessRequests(service) :
          inflight' = [inflight EXCEPT ![service] = req]
    /\ UNCHANGED <<variant, config, phase, handlers, pc, imds_responses_file,
                   running, interface, acquired, released, propagating,
                   exit_status, sigint>>

\* the handler of a listener runs to its end
Respond(service) ==
    /\ inflight[service] # NoRequest
    /\ pc # "exit"
    /\ Handle(service, inflight[service],
              IF service = "imds"
              THEN IMDSHandler(variant, inflight[service], responses["imds"],
                               response_position["imds"])
              ELSE WireServerHandler(variant, inflight[service],
                                     responses["wireserver"],
                                     response_position["wireserver"]))
    /\ inflight' = [inflight EXCEPT ![service] = NoRequest]
    /\ UNCHANGED <<pc, imds_responses_file, running, interface, acquired,
                   released, propagating, exit_status, sigint>>

NextProcess ==
    \/ Main
    \/ Main_TestServer
    \/ Main_TestServer_TypeError
    \/ TestServer_setup_network_interface
    \/ TestServer_start_threads
    \/ TestServer_start_except
    \/ signal_handler
    \/ TestServer_stop
    \/ TestServer_stop_wireserver
    \/ TestServer_stop_cleanup
    \/ TestServer_start_imds_server
    \/ TestServer_start_wireserver_server
    \/ \E service \in Services : Accept(service)
    \/ \E service \in Services : Respond(service)

SpecProcess == InitProcess /\ [][NextProcess]_vars

(***************************************************************************)
(* The handlers with a client that may close its connection before the     *)
(* response is complete.  wfile is unbuffered: send_response and           *)
(* send_header collect the header lines, end_headers writes them to the    *)
(* socket and wfile.write writes the body; either write raises when the    *)
(* client is gone, and the rest of the handler is not executed.            *)
(***************************************************************************)
\* the calls a handler made before its first call of this kind
Before(wire, kind) ==
    LET at == {i \in 1..Len(wire) : wire[i].ev = kind}
    IN  IF at = {} THEN wire
        ELSE SubSeq(wire, 1,
                    (CHOOSE i \in at : \A j \in at : i <= j) - 1)

\* a closed connection that lets the handler advance the cursor all the same
Hangup_Advance(out, broken_at) ==
    IF broken_at = None \/ out.raised # None THEN out
    ELSE [out EXCEPT !.wire = Before(out.wire, broken_at),
                     !.raised = "BrokenPipeError"]

\* what a handler does when the socket write of end_headers or of the body
\* raises: in write_custom_response the wrap of the cursor and the
\* selection are done, the "+= 1" at the end is not reached
Hangup(out, broken_at) ==
    IF broken_at = None \/ out.raised # None THEN out
    ELSE [out EXCEPT !.wire = Before(out.wire, broken_at),
                     !.raised = "BrokenPipeError",
                     !.position = IF out.selected >= 0 THEN out.selected
                                  ELSE out.position]

\* where the connection breaks: not at all, or at one of the socket writes
BrokenAt == {None, "end_headers", "write"}

\* a listener handles a request of a client that may hang up
Exchange(service) ==
    /\ phase[service] = "serving"
    /\ handled < MaxRequests
    /\ \E req \in ProcessRequests(service), broken_at \in BrokenAt :
          Handle(service, req,
                 Hangup(IF service = "imds"
                        THEN IMDSHandler(variant, req, responses["imds"],
                                         response_position["imds"])
                        ELSE WireServerHandler(variant, req,
                                               responses["wireserver"],
                                               response_position["wireserver"]),
                        broken_at))
    /\ UNCHANGED lifecycle

NextHangup ==
    \/ StartImdsServer
    \/ StartImdsServerWithResponses
    \/ WireServerLoadResponses
    \/ StartWireserverServer
    \/ \E service \in Services : Exchange(service)

SpecHangup == Init /\ [][NextHangup]_vars

(***************************************************************************)
(* Reading what a handler did on the connection.                           *)
(***************************************************************************)
EventsOf(wire, kind) == SelectSeq(wire, LAMBDA e : e.ev = kind)

\* the status code sent, -1 when no status line was sent
StatusOf(wire) ==
    LET st == EventsOf(wire, "status")
    IN  IF st = <<>> THEN -1 ELSE st[1].code

\* the headers sent, in order, as <<name, value>> pairs
HeadersOf(wire) ==
    LET hs == EventsOf(wire, "header")
    IN  [i \in 1..Len(hs) |-> <<hs[i].name, hs[i].value>>]

NoBody == [nothing |-> TRUE]

\* the body written, NoBody when nothing was written
BodyOf(wire) ==
    LET ws == EventsOf(wire, "write")
    IN  IF ws = <<>> THEN NoBody ELSE ws[1].data

\* some byte (status line, header or body) was written to the response
WroteAnything(wire) == \E i \in 1..Len(wire) : wire[i].ev # "sleep"

\* seconds the handler slept before the first byte of the response
RECURSIVE SleptBeforeWriting(_)
SleptBeforeWriting(wire) ==
    IF wire = <<>> \/ Head(wire).ev # "sleep" THEN 0
    ELSE Head(wire).secs + SleptBeforeWriting(Tail(wire))

\* the request handled last was a request to this service
LastIs(service) == last.service = service

\* the request handled last carried the header "Metadata: true"
LastHasMetadataTrue ==
    Has(last.req.headers, "Metadata") /\ last.req.headers["Metadata"] = "true"

BadRequestBody ==
    Encode(JsonDumps([error |-> "Bad Request",
                      message |-> "Metadata header not found"]))

(***************************************************************************)
(* C1 (as stated): every request to the instance-metadata service whose    *)
(* Metadata header is absent or not exactly "true" is answered 400 with    *)
(* the body {"error":"Bad Request","message":"Metadata header not found"}, *)
(* whatever the path and whatever the HTTP method.                         *)
(***************************************************************************)
C1_AnyMethod ==
    (LastIs("imds") /\ ~LastHasMetadataTrue)
        => /\ StatusOf(last.out.wire) = 400
           /\ BodyOf(last.out.wire) = BadRequestBody

(***************************************************************************)
(* C1 (amended): every GET request to the instance-metadata service whose  *)
(* Metadata header is absent or not exactly "true" is answered 400 with    *)
(* the body {"error":"Bad Request","message":"Metadata header not found"}, *)
(* whatever the path.                                                      *)
(***************************************************************************)
C1_BadRequestOnGet ==
    (LastIs("imds") /\ last.req.method = "GET" /\ ~LastHasMetadataTrue)
        => /\ StatusOf(last.out.wire) = 400
           /\ BodyOf(last.out.wire) = BadRequestBody
           /\ last.out.raised = None

\* a GET to the token path with "Metadata: True" was answered 400
C1_Witness ==
    /\ LastIs("imds")
    /\ last.req.method = "GET"
    /\ last.req.path = "/metadata/identity/oauth2/token"
    /\ Has(last.req.headers, "Metadata")
    /\ last.req.headers["Metadata"] = "True"
    /\ StatusOf(last.out.wire) = 400

AllServable(list) == \A i \in 1..Len(list) : Has(list[i], "status_code")

TimeoutFlag(service) ==
    IF service = "imds" THEN IMDS_GET_TIMEOUT ELSE WIRESERVER_GET_TIMEOUT

FixedDelay(service) ==
    IF service = "imds" THEN IMDS_GET_DELAY ELSE WIRESERVER_GET_DELAY

C3_TimeoutWritesNothing ==
    \A s \in Services :
        (LastIs(s) /\ TimeoutFlag(s))
            => /\ ~WroteAnything(last.out.wire)
               /\ SleptBeforeWriting(last.out.wire) = 0
               /\ last.out.selected = -1

(***************************************************************************)
(* C4 (as stated): when a positive fixed delay D is configured for a       *)
(* service and timeout mode is off, every request to that service that a   *)
(* handler method answers has the handling thread suspended for at least   *)
(* D seconds before any part of the response is written.                   *)
(***************************************************************************)
C4_FixedDelayBeforeResponse ==
    \A s \in Services :
        (LastIs(s) /\ FixedDelay(s) > 0 /\ ~TimeoutFlag(s)
                   /\ WroteAnything(last.out.wire)
                   /\ StatusOf(last.out.wire) # 501)
            => SleptBeforeWriting(last.out.wire) >= FixedDelay(s)

(***************************************************************************)
(* C5 (as stated): every GET to /metadata/instance carrying                *)
(* "Metadata: true" with no scripted source loaded is answered 200 with    *)
(* the built-in default payload, unless the query contains extended=true,  *)
(* in which case the body is the built-in extended payload.                *)
(***************************************************************************)
LastIsDefaultInstanceGet ==
    /\ LastIs("imds")
    /\ last.req.method = "GET"
    /\ last.req.path = "/metadata/instance"
    /\ LastHasMetadataTrue
    /\ responses["imds"].is_none

DefaultPayload ==
    IF variant = "testinit" THEN MOCK_INSTANCE_METADATA
                            ELSE KUBINIT_MOCK_INSTANCE_METADATA

\* the query carries extended=true, in any letter case of the value
QueryContainsExtendedTrue(query) ==
    \E i \in 1..Len(query) :
        query[i][1] = "extended" /\ query[i][2] \in {"true", "True", "TRUE"}

FirstExtendedIsTrue(query) ==
    LET at == {i \in 1..Len(query) :
                  query[i][1] = "extended" /\ query[i][2] # ""}
    IN  /\ at # {}
        /\ query[CHOOSE i \in at : \A j \in at : i <= j][2]
               \in {"true", "True", "TRUE"}

LastIsScriptedInstanceGet ==
    /\ LastIs("imds")
    /\ last.req.method = "GET"
    /\ last.req.path = "/metadata/instance"
    /\ LastHasMetadataTrue
    /\ ~responses["imds"].is_none

\* the entry the cursor selects is a descriptor: it exists and carries a
\* status code
DescriptorAtCursor(list, selected) ==
    /\ selected >= 0
    /\ selected + 1 <= Len(list)
    /\ Has(list[selected + 1], "status_code")

C7_PostPlaysDescriptor ==
    (/\ LastIs("wireserver")
     /\ last.req.method = "POST"
     /\ ~responses["wireserver"].is_none
     /\ last.out.selected >= 0
     /\ Has(responses["wireserver"].list[last.out.selected + 1], "status_code")
     /\ Has(responses["wireserver"].list[last.out.selected + 1], "response"))
        => LET descriptor == responses["wireserver"].list[last.out.selected + 1]
           IN  /\ StatusOf(last.out.wire) = descriptor["status_code"]
               /\ HeadersOf(last.out.wire) = Get(descriptor, "headers", <<>>)
               /\ BodyOf(last.out.wire) = Encode(descriptor["response"])

(***************************************************************************)
(* C8: with no scripted source loaded, every POST to the control-plane     *)
(* service, on any path and with any body, has its body read up to the     *)
(* declared content length and is answered 200 with Content-Type           *)
(* application/xml and the fixed acknowledgment body, and the POST leaves  *)
(* the server state (configuration, listeners, loaded responses, cursors)  *)
(* unchanged.                                                              *)
(***************************************************************************)
DeclaredLength(req) ==
    IF Has(req.headers, "Content-Length")
    THEN ParseInt(req.headers["Content-Length"]) ELSE 0

C8_PostAcknowledged ==
    [][(/\ handled' = handled + 1
        /\ last'.service = "wireserver"
        /\ last'.req.method = "POST"
        /\ responses["wireserver"].is_none)
          => /\ last'.out.wire =
                    <<SendResponse(200),
                      SendHeader("Content-Type", "application/xml"),
                      EndHeaders,
                      Write(Encode(ResponseOK))>>
             /\ last'.out.raised = None
             /\ Len(last'.out.post_data) <= DeclaredLength(last'.req)
             /\ (DeclaredLength(last'.req) = Len(last'.req.body)
                    => last'.out.post_data = last'.req.body)
             /\ UNCHANGED <<config, phase, responses, response_position,
                            played>>]_vars

\* a POST with a non-empty body, to a path other than the machine path, was
\* read in full and acknowledged
C8_Witness ==
    /\ LastIs("wireserver")
    /\ last.req.method = "POST"
    /\ last.req.path = <<"/">>
    /\ responses["wireserver"].is_none
    /\ Len(last.req.body) = MaxBody
    /\ last.out.post_data = last.req.body
    /\ StatusOf(last.out.wire) = 200
    /\ BodyOf(last.out.wire) = Encode(ResponseOK)

(***************************************************************************)
(* C9 (as stated): every GET to the control-plane service is answered      *)
(* 200: with the fixed goal-state XML document when the path starts with   *)
(* the machine-configuration prefix (or by scripted playback when a        *)
(* Response Source is loaded), and with the fixed JSON configuration       *)
(* document for every other path.                                          *)
(***************************************************************************)
C9_GetAnswered ==
    (LastIs("wireserver") /\ last.req.method = "GET")
        => /\ StatusOf(last.out.wire) = 200
           /\ IF StartsWith(last.req.path, MachinePrefix)
              THEN IF responses["wireserver"].is_none
                   THEN BodyOf(last.out.wire) = Encode(xml_response)
                   ELSE IsPlayback(last.out)
              ELSE BodyOf(last.out.wire) =
                       Encode(JsonDumps(MOCK_WIRESERVER_CONFIG))

(***************************************************************************)
(* C10 (as stated): a GET to /metadata/identity/oauth2/token (carrying     *)
(* "Metadata: true") is answered 200 with the fixed mock bearer-token      *)
(* payload, token_type "Bearer", whether or not a Response Source is       *)
(* loaded, and never consumes a scripted response.                         *)
(***************************************************************************)
C10_TokenAnswered ==
    (/\ LastIs("imds")
     /\ last.req.method = "GET"
     /\ last.req.path = "/metadata/identity/oauth2/token"
     /\ LastHasMetadataTrue)
        => /\ StatusOf(last.out.wire) = 200
           /\ BodyOf(last.out.wire) = Encode(JsonDumps(mock_token))
           /\ mock_token.token_type = "Bearer"
           /\ ~IsPlayback(last.out)

(***************************************************************************)
(* Observations of the process.                                            *)
(***************************************************************************)
\* the file named by --imds-responses is missing, is not JSON, or has no
\* top-level "responses" list
UnusableResponsesFile ==
    /\ imds_responses_file # NoFile
    /\ \/ imds_responses_file.kind \in {"missing", "invalid"}
       \/ ~Has(imds_responses_file.value, "responses")

\* a listener has been started
ListenerStarted(service) == phase[service] \in {"serving", "shut_down"}

C13_AcquiredOnceReleasedOnce ==
    /\ acquired <= 1
    /\ released <= 1
    /\ (pc = "exit" /\ acquired = 1) => released = 1

(***************************************************************************)
(* C14 (as stated): request-level errors never terminate a listener: for   *)
(* every request whose handling fails (missing header, unknown path, or a  *)
(* scripted entry that cannot be served) the client receives a response    *)
(* and the listener goes on serving.                                       *)
(***************************************************************************)
\* the handling of a request failed: it was refused with 400 or 404, or the
\* handler raised
Failed(out) == out.raised # None \/ StatusOf(out.wire) \in {400, 404}

C14_FailedRequestAnswered ==
    (last # NoRequest /\ Failed(last.out))
        => /\ StatusOf(last.out.wire) # -1
           /\ phase[last.service] = "serving"

(***************************************************************************)
(* C15: the two listeners are independent.  While the process runs, a      *)
(* service that is blocked in a request or has failed (its thread died,    *)
(* its last handler raised) never keeps the other service from taking its  *)
(* next step: a listener thread that is starting can start, a serving      *)
(* listener with no request in hand can accept one, and a handler that was *)
(* called can run to its end.                                              *)
(***************************************************************************)
Other(service) == CHOOSE o \in Services : o # service

StartListener(service) ==
    IF service = "imds" THEN TestServer_start_imds_server
    ELSE TestServer_start_wireserver_server

\* the service is handling a request, or its thread is dead, or its last
\* handler raised
BlockedOrFailed(service) ==
    \/ inflight[service] # NoRequest
    \/ phase[service] = "dead"
    \/ LastIs(service) /\ last.out.raised # None

C15_OtherListenerProceeds ==
    \A service \in Services :
        (pc # "exit" /\ BlockedOrFailed(service))
            => LET o == Other(service)
               IN  /\ phase[o] = "starting" => ENABLED StartListener(o)
                   /\ (/\ phase[o] = "serving"
                       /\ inflight[o] = NoRequest
                       /\ handled + Cardinality(InFlight) < MaxRequests)
                          => ENABLED Accept(o)
                   /\ inflight[o] # NoRequest => ENABLED Respond(o)

\* the IMDS thread died loading a file without "responses", and the
\* WireServer listener has answered a request since
C15_Witness ==
    /\ phase["imds"] = "dead"
    /\ imds_responses_file # NoFile
    /\ ~Has(imds_responses_file.value, "responses")
    /\ LastIs("wireserver")
    /\ StatusOf(last.out.wire) = 200
    /\ handled = MaxRequests

(***************************************************************************)
(* C16 (as stated): every successful load of a Response Source leaves the  *)
(* cursor at 0, so the first scripted request after any load, a load made  *)
(* after some responses were served included, is answered from entry 0.    *)
(* With played holding the scripted requests since the last load: a loaded *)
(* service that has played nothing yet has its cursor at 0, and the first  *)
(* scripted request it answers selects entry 0.                            *)
(***************************************************************************)
C16_LoadResetsCursor ==
    \A service \in Services :
        ~responses[service].is_none
            => /\ played[service] = <<>> => response_position[service] = 0
               /\ (played[service] # <<>> /\ played[service][1].answered)
                      => played[service][1].selected = 0

(***************************************************************************)
(* C17 (as stated): on both services, when the descriptor chosen for a     *)
(* scripted request carries its own delay, the handler suspends for that   *)
(* duration before it sends the response status, headers and body.         *)
(***************************************************************************)
\* the request handled last was answered from a descriptor that has a delay
LastPlayedDelayedDescriptor ==
    /\ last # NoRequest
    /\ IsPlayback(last.out)
    /\ ~responses[last.service].is_none
    /\ DescriptorAtCursor(responses[last.service].list, last.out.selected)
    /\ Has(responses[last.service].list[last.out.selected + 1], "delay")

C17_DescriptorDelayBeforeResponse ==
    LastPlayedDelayedDescriptor
        => /\ SleptBeforeWriting(last.out.wire) =
                  responses[last.service].list[last.out.selected + 1]["delay"]
           /\ StatusOf(last.out.wire) # -1

(***************************************************************************)
(* C18: each service handles one request at a time.  A request that a      *)
(* listener is handling stays the request in hand until its handler has    *)
(* returned, and the scripted entries a service has served follow the      *)
(* list cyclically from entry 0: none is skipped and none is served twice  *)
(* within a cycle.                                                         *)
(***************************************************************************)
\* the scripted requests of a service that were answered, in order
Served(service) == SelectSeq(played[service], LAMBDA e : e.answered)

\* the entries were taken from a list of n entries one after the other,
\* starting at entry 0 and wrapping
InCycleOrder(entries, n) ==
    \A i \in 1..Len(entries) : entries[i].selected = (i - 1) % n

ServedInCycleOrder ==
    \A service \in Services :
        (~responses[service].is_none /\ Served(service) # <<>>)
            => InCycleOrder(Served(service), Len(responses[service].list))

C18_OneRequestAtATime ==
    [][/\ \A service \in Services :
             inflight[service] # NoRequest
                 => inflight'[service] \in {inflight[service], NoRequest}
       /\ ServedInCycleOrder']_vars

\* a list of two entries has been played past its end, one request at a time
C18_Witness ==
    /\ ~responses["imds"].is_none
    /\ Len(responses["imds"].list) = 2
    /\ Len(Served("imds")) = 3
    /\ inflight["imds"] = NoRequest

(***************************************************************************)
(* C19: for a loaded source with N >= 1 entries the cursor of the service  *)
(* is always between 0 and N, and the index a scripted request uses to     *)
(* select its descriptor is between 0 and N-1: playback never reads        *)
(* outside the loaded list.                                                *)
(***************************************************************************)
C19_CursorInRange ==
    \A service \in Services :
        (~responses[service].is_none /\ Len(responses[service].list) >= 1)
            => LET N == Len(responses[service].list)
               IN  /\ response_position[service] \in 0..N
                   /\ (LastIs(service) /\ IsPlayback(last.out))
                          => /\ last.out.raised # "IndexError"
                             /\ last.out.selected \in 0..(N - 1)

\* the cursor stands at N, past the last entry, after entry N-1 was served
C19_Witness ==
    /\ ~responses["wireserver"].is_none
    /\ Len(responses["wireserver"].list) >= 1
    /\ response_position["wireserver"] = Len(responses["wireserver"].list)
    /\ LastIs("wireserver")
    /\ last.out.selected = Len(responses["wireserver"].list) - 1

Complete(wire) ==
    /\ EventsOf(wire, "status") # <<>>
    /\ EventsOf(wire, "end_headers") # <<>>
    /\ EventsOf(wire, "write") # <<>>

\* this step is a scripted request handled by the service
PlaybackStep(service) ==
    /\ handled' = handled + 1
    /\ last'.service = service
    /\ IsPlayback(last'.out)

\* after a scripted request that selected an entry and failed, the next
\* scripted request of the service selects the same entry
FailedEntrySelectedAgain ==
    \A service \in Services :
        \A i \in 1..(Len(played[service]) - 1) :
            (~played[service][i].answered /\ played[service][i].selected >= 0)
                => played[service][i + 1].selected =
                       played[service][i].selected

C21_CursorUnchangedOnFailure ==
    [][/\ \A service \in Services :
             PlaybackStep(service)
                 => IF last'.out.raised = None
                    THEN /\ Complete(last'.out.wire)
                         /\ response_position'[service] =
                                last'.out.selected + 1
                    ELSE response_position'[service] =
                             response_position[service]
       /\ FailedEntrySelectedAgain']_vars

(***************************************************************************)
(* C21 (amended): the cursor is advanced by one only after the scripted    *)
(* response's status, headers and body have all been written; if serving   *)
(* the selected entry fails before that point the cursor is not advanced:  *)
(* it is left at the index of the selected entry (a cursor that stood      *)
(* behind the last entry has been wrapped to 0), and the next scripted     *)
(* request to that service selects the same entry again.                   *)
(***************************************************************************)
C21_CursorNotAdvancedOnFailure ==
    [][/\ \A service \in Services :
             PlaybackStep(service)
                 => IF last'.out.raised = None
                    THEN /\ Complete(last'.out.wire)
                         /\ response_position'[service] =
                                last'.out.selected + 1
                    ELSE response_position'[service] =
                             IF response_position[service] >=
                                    Len(responses[service].list)
                             THEN 0
                             ELSE response_position[service]
       /\ FailedEntrySelectedAgain']_vars

\* the only entry of a list was served, then selected again by a request
\* whose client hung up, then selected a third time and served
C21_Witness ==
    /\ ~responses["imds"].is_none
    /\ Len(responses["imds"].list) = 1
    /\ Len(played["imds"]) = 3
    /\ played["imds"][1].answered
    /\ ~played["imds"][2].answered
    /\ played["imds"][2].selected = 0
    /\ played["imds"][3].answered
    /\ played["imds"][3].selected = 0
    /\ response_position["imds"] = 1

====
